---- MODULE Spec2Model ----
(***************************************************************************)
(* Storage and read-path core of the ledger reporting service:             *)
(*   - the write path of one ledger (async writes, sync barrier, the       *)
(*     conditional ledger_range update) of CassandraBackend,               *)
(*   - the cache-then-store read path of BackendInterface.                 *)
(* Code that lives in CassandraBackend.cpp, SimpleCache.cpp,               *)
(* BackendInterface.h and the ETL is modelled from the specification.      *)
(***************************************************************************)
EXTENDS Integers, Sequences, FiniteSets, TLC

\* ------------------------------------------------------------- bounds
\* Ledger sequences are 1..MaxSeq.
MaxSeq == 2
\* Greatest sequence a process of the commit model calls finishWrites with.
MaxCommitSeq == 3
\* Number of state objects one ledger changes.
MaxDiff == 2
\* Number of driver errors injected into one finishWrites call.
MaxErrs == 1
\* Length of the key vectors given to fetchLedgerObjects.
MaxLen == 2
\* Async writes the issuing thread of the thread model makes before sync().
MaxWrites == 3
\* Re-issues of async writes after a driver error in the thread model.
MaxRetries == 2
\* Keys of one doFetchLedgerObjects batch in the batch model.
MaxBatch == 3
\* Spurious wake-ups of a condition variable wait in the thread model.
MaxSpurious == 1
\* Longest sequence of driver results a synchronous call of the call model meets.
MaxScript == 3
\* Greatest page limit given to fetchLedgerPage.
MaxLimit == 2
\* Pages (the root included) of one offer directory of the book model.
MaxPages == 3
\* Offers in sfIndexes of one directory page of the book model.
MaxWidth == 2
\* Greatest limit given to fetchBookOffers.
MaxBookLimit == 4
\* Parameters of a prepared statement of the bind model.
MaxParams == 3

\* ---------------------------------------------------------- constants
\* Admission cap (configuration option maxRequestsOutstanding).
maxRequestsOutstanding == 2
\* The lower cap meant for the requests of the retention procedure.
indexerMaxRequestsOutstanding == 1
\* Key space: firstKey < object keys < lastKey.
firstKey == 0
lastKey == 4
Keys == {1, 2, 3}
EmptyBlob == <<>>
\* An absent ledger_range row.
Null == 0
Seqs == 1..MaxSeq
\* The serialized object a ledger writes: every version has its own content.
BlobAt(seq) == <<seq>>
Blobs == {BlobAt(seq) : seq \in Seqs}
\* Backend processes that share the store; ReadWriter's process holds the cache
\* and serves the reads.
Writers == {"w1", "w2"}
ReadWriter == "w1"
\* Driver outcomes of one synchronous attempt: OK, an error without effect, an
\* error (timeout class) whose statement the server nevertheless executed.
Outcomes == {"ok", "err", "errApplied"}

VARIABLES
    ledgerRange,              \* table ledger_range: is_latest -> sequence (Null: no row)
    objects,                  \* table objects: rows [key, seq, val = blob]
    successor,                \* table successor: rows [key, seq, val = <<next>>]
    cache_,                   \* BackendInterface::cache_ of ReadWriter's process
    range,                    \* BackendInterface::range, per process
    ledgerSequence_,          \* CassandraBackend::ledgerSequence_
    numRequestsOutstanding_,  \* CassandraBackend::numRequestsOutstanding_
    inflight,                 \* async writes handed to the driver, not yet completed
    pc,                       \* position of the ETL thread of each process
    timedOut,                 \* local of executeSyncUpdate
    errs,                     \* driver errors injected into the current call
    res,                      \* result of the last finishWrites: "none" | "true" | "false"
    sawExpected,              \* history: an attempt of the conditional update met max = S-1 or no row
    changed,                  \* history: ledger_range rows the current call has changed
    tpc,                      \* thread model: position of each thread
    held,                     \* thread model: owner of throttleMutex_ and of syncMutex_
    waiting,                  \* thread model: threads blocked in throttleCv_ and in syncCv_
    pending,                  \* thread model: statements the driver holds, callback not yet run
    toIssue,                  \* thread model: writes the issuing thread has still to make
    cur,                      \* thread model: local cur of decrementOutstandingRequestCount
    budget,                   \* thread model: driver errors and spurious wake-ups left
    seen,                     \* thread model: history of sync(): count at return, whether it blocked
    call,                     \* call model: one synchronous call and the driver's answers
    issuer,                   \* thread model: what the issuing thread runs (ETL or retention)
    reads,                    \* batch model: async reads of one doFetchLedgerObjects call
    bookWalk,                 \* book model: the locals of one fetchBookOffers call
    statement,                \* bind model: one CassandraStatement and its driver statement
    startMax                  \* the persisted max a finishWrites call found when it began

threadVars == <<tpc, held, waiting, pending, toIssue, cur, budget, seen>>
auxVars == <<threadVars, call, issuer, reads, bookWalk, statement>>
vars == <<ledgerRange, objects, successor, cache_, range, ledgerSequence_,
          numRequestsOutstanding_, inflight, pc, timedOut, errs, res,
          sawExpected, changed, auxVars, startMax>>

\* ------------------------------------------------------------ options
NoRange == [has |-> FALSE, min |-> 0, max |-> 0]
\* std::optional<Blob>; src is the sequence of the row or cache entry the answer
\* was taken from (0: none).
NoBlob(s) == [has |-> FALSE, val |-> EmptyBlob, src |-> s]
SomeBlob(b, s) == [has |-> TRUE, val |-> b, src |-> s]
\* std::optional<uint256>
NoKey(s) == [has |-> FALSE, val |-> firstKey, src |-> s]
SomeKey(k, s) == [has |-> TRUE, val |-> k, src |-> s]
SameOpt(a, b) == a.has = b.has /\ a.val = b.val

Min(S) == CHOOSE x \in S : \A y \in S : x <= y
Max(S) == CHOOSE x \in S : \A y \in S : y <= x

\* --------------------------------------------------------------- store
\* A write of row r into a table with primary key (key, seq).
Put(tbl, r) ==
    {x \in tbl : ~(x.key = r.key /\ x.seq = r.seq)}
        \cup {[key |-> r.key, seq |-> r.seq, val |-> r.val]}

\* The row of key with the greatest seq <= sequence (the rows must be non-empty).
LatestRow(rows) == CHOOSE r \in rows : \A q \in rows : q.seq <= r.seq
RowsUpTo(tbl, key, sequence) == {r \in tbl : r.key = key /\ r.seq <= sequence}

\* SELECT object FROM objects WHERE key=? AND sequence<=? LIMIT 1; empty => none
doFetchLedgerObject(key, sequence) ==
    LET rows == RowsUpTo(objects, key, sequence) IN
    IF rows = {} THEN NoBlob(0)
    ELSE LET r == LatestRow(rows) IN
         IF Len(r.val) = 0 THEN NoBlob(r.seq) ELSE SomeBlob(r.val, r.seq)

\* One read per key, assembled at the key's index; an absent key is the empty blob.
doFetchLedgerObjects(keys, sequence) ==
    [i \in 1..Len(keys) |-> doFetchLedgerObject(keys[i], sequence).val]

\* SELECT next FROM successor WHERE key=? AND seq<=? LIMIT 1; lastKey => none
doFetchSuccessorKey(key, ledgerSequence) ==
    LET rows == RowsUpTo(successor, key, ledgerSequence) IN
    IF rows = {} THEN NoKey(0)
    ELSE LET r == LatestRow(rows) IN
         IF r.val[1] = lastKey THEN NoKey(r.seq) ELSE SomeKey(r.val[1], r.seq)

\* UPDATE ledger_range SET sequence = newSeq WHERE is_latest = isLatest
\* IF sequence IN (expected, null)
RangeUpdateApplies(lr, isLatest, expected) == lr[isLatest] \in {expected, Null}
UpdateLedgerRange(lr, newSeq, isLatest, expected) ==
    IF RangeUpdateApplies(lr, isLatest, expected)
    THEN [lr EXCEPT ![isLatest] = newSeq]
    ELSE lr

\* An admission test that still admits a request at the cap.
canAddRequestAtCap(n) == n <= maxRequestsOutstanding

\* ------------------------------------------------- async write pipeline
canAddRequest(n) == n < maxRequestsOutstanding
finishedAllRequests(n) == n = 0
incremementOutstandingRequestCount(n) == n + 1
decrementOutstandingRequestCount(n) == n - 1
finishAsyncWrite(n) == decrementOutstandingRequestCount(n)
\* An executeAsyncWrite that takes a slot for a retry as well.
executeAsyncWriteAlwaysIncrements(n, isRetry) == incremementOutstandingRequestCount(n)

\* An executeAsyncWrite with the test of isRetry inverted.
executeAsyncWriteIncrementsOnRetry(n, isRetry) ==
    IF isRetry THEN incremementOutstandingRequestCount(n) ELSE n

\* The counter after executeAsyncWrite: a retry does not take a second slot.
executeAsyncWrite(n, isRetry) ==
    IF ~isRetry THEN incremementOutstandingRequestCount(n) ELSE n

Request(tbl, key, seq, val) ==
    [tbl |-> tbl, key |-> key, seq |-> seq, val |-> val, retried |-> FALSE]
Issued(w, tbl) ==
    {[key |-> q.key, seq |-> q.seq, val |-> q.val] : q \in {q \in inflight[w] : q.tbl = tbl}}

\* The object rows and link rows of the ledger w is writing.
DiffOf(w) ==
    {r \in Issued(w, "objects") \cup objects : r.seq = ledgerSequence_[w]}
LinksOf(w) ==
    {r \in Issued(w, "successor") \cup successor : r.seq = ledgerSequence_[w]}

\* ---------------------------------------------------------------- Init
NoEntry == [in |-> FALSE, seq |-> 0, blob |-> EmptyBlob]
InitStore ==
    /\ ledgerRange = [b \in BOOLEAN |-> Null]
    /\ objects = {}
    /\ successor = {}
    /\ cache_ = [map |-> [k \in Keys |-> NoEntry], index |-> {},
                 latestSeq |-> 0, full |-> FALSE]
    /\ range = [w \in Writers |-> NoRange]
    /\ ledgerSequence_ = [w \in Writers |-> 0]
    /\ numRequestsOutstanding_ = [w \in Writers |-> 0]
    /\ inflight = [w \in Writers |-> {}]
    /\ pc = [w \in Writers |-> "idle"]
    /\ timedOut = [w \in Writers |-> FALSE]
    /\ errs = [w \in Writers |-> 0]
    /\ res = [w \in Writers |-> "none"]
    /\ sawExpected = [w \in Writers |-> FALSE]
    /\ changed = [w \in Writers |-> {}]
    /\ startMax = [w \in Writers |-> Null]

\* The threads of the thread model: the thread that issues the async writes and
\* then calls sync(), and the driver threads that run the write callbacks.
SyncThread == "etl"
Callbacks == {"cb1", "cb2"}
\* A second thread that issues async writes, at rest unless the model of the
\* concurrent admission starts it.
SecondIssuer == "etl2"
Issuers == {SyncThread, SecondIssuer}
Threads == Issuers \cup Callbacks
NoThread == "none"
NotSeen == [count |-> -1, blocked |-> FALSE]
InitThreads(writes) ==
    /\ tpc = [t \in Threads |-> IF t = SyncThread THEN "issue"
                                 ELSE IF t = SecondIssuer THEN "off" ELSE "idle"]
    /\ held = [m \in {"throttle", "sync"} |-> NoThread]
    /\ waiting = [m \in {"throttle", "sync"} |-> {}]
    /\ pending = 0
    /\ toIssue = writes
    /\ cur = [t \in Callbacks |-> 0]
    /\ budget = [errors |-> MaxRetries, spurious |-> MaxSpurious]
    /\ seen = NotSeen

\* No synchronous call of the call model is running.
NoCall == [op |-> "none", script |-> <<>>, row |-> "none", value |-> NoRange,
           inner |-> "idle", state |-> "idle", result |-> "none", timedOut |-> FALSE,
           hist |-> <<>>, attempts |-> 0, raised |-> <<>>, futures |-> 0]

\* No batch of async reads is running.
NoReads == [toIssue |-> 0, inFlight |-> 0]

\* No fetchBookOffers call is running.
NoWalk == [state |-> "idle"]

\* No statement is being bound.
NoStatement == [state |-> "idle"]

Init ==
    /\ InitStore /\ InitThreads(0)
    /\ call = NoCall /\ issuer = "etl" /\ reads = NoReads /\ bookWalk = NoWalk
    /\ statement = NoStatement

\* ---------------------------------------------------------- write path
\* writeLedger: one call per ledger; records the sequence doFinishWrites commits.
WriteLedger(w, seq) ==
    /\ pc[w] = "idle"
    /\ pc' = [pc EXCEPT ![w] = "writing"]
    /\ ledgerSequence_' = [ledgerSequence_ EXCEPT ![w] = seq]
    /\ res' = [res EXCEPT ![w] = "none"]
    /\ sawExpected' = [sawExpected EXCEPT ![w] = FALSE]
    /\ changed' = [changed EXCEPT ![w] = {}]
    /\ errs' = [errs EXCEPT ![w] = 0]
    /\ startMax' = [startMax EXCEPT ![w] = Null]
    /\ UNCHANGED <<auxVars, ledgerRange, objects, successor, cache_, range,
                   numRequestsOutstanding_, inflight, timedOut>>

\* An async write: admission (blocks while the cap is reached), then the request
\* is handed to the driver.
AsyncWrite(w, req) ==
    /\ canAddRequest(numRequestsOutstanding_[w])
    /\ numRequestsOutstanding_' =
         [numRequestsOutstanding_ EXCEPT ![w] = executeAsyncWrite(@, FALSE)]
    /\ inflight' = [inflight EXCEPT ![w] = @ \cup {req}]

\* writeLedgerObject(key, seq, blob): an empty blob deletes a key that is live.
WriteLedgerObject(w, key, blob) ==
    /\ pc[w] = "writing"
    /\ LinksOf(w) = {}
    /\ Cardinality(DiffOf(w)) < MaxDiff
    /\ \A r \in DiffOf(w) : r.key # key
    /\ blob = EmptyBlob => doFetchLedgerObject(key, ledgerSequence_[w] - 1).has
    /\ AsyncWrite(w, Request("objects", key, ledgerSequence_[w], blob))
    /\ UNCHANGED <<auxVars, startMax, ledgerRange, objects, successor, cache_, range,
                   ledgerSequence_,
                   pc, timedOut, errs, res, sawExpected, changed>>

\* The driver's callback with CASS_OK: the row is stored, the slot is released.
AsyncWriteOk(w, req) ==
    /\ req \in inflight[w]
    /\ inflight' = [inflight EXCEPT ![w] = @ \ {req}]
    /\ numRequestsOutstanding_' =
         [numRequestsOutstanding_ EXCEPT ![w] = finishAsyncWrite(@)]
    /\ IF req.tbl = "objects"
       THEN objects' = Put(objects, req) /\ UNCHANGED successor
       ELSE successor' = Put(successor, req) /\ UNCHANGED objects
    /\ UNCHANGED <<auxVars, startMax, ledgerRange, cache_, range, ledgerSequence_, pc, timedOut,
                   errs, res, sawExpected, changed>>

\* The driver's callback with an error: the same statement is re-issued with
\* isRetry = true; the server may have stored the row all the same.
AsyncWriteError(w, req, applied) ==
    /\ req \in inflight[w]
    /\ ~req.retried
    /\ inflight' = [inflight EXCEPT ![w] = (@ \ {req}) \cup {[req EXCEPT !.retried = TRUE]}]
    /\ numRequestsOutstanding_' =
         [numRequestsOutstanding_ EXCEPT ![w] = executeAsyncWrite(@, TRUE)]
    /\ IF ~applied THEN UNCHANGED <<objects, successor>>
       ELSE IF req.tbl = "objects"
            THEN objects' = Put(objects, req) /\ UNCHANGED successor
            ELSE successor' = Put(successor, req) /\ UNCHANGED objects
    /\ UNCHANGED <<auxVars, startMax, ledgerRange, cache_, range, ledgerSequence_, pc, timedOut,
                   errs, res, sawExpected, changed>>

\* A sync() that returns while one request is still outstanding.
syncWithOneOutstanding(w) == numRequestsOutstanding_[w] <= 1

\* sync(): returns when the wait's predicate finishedAllRequests holds.
sync(w) == finishedAllRequests(numRequestsOutstanding_[w])

\* finishWrites -> doFinishWrites, up to the end of sync(): the thread goes on to
\* the range writes, the initial insert first when the process knows no range.
DoFinishWritesSync(w) ==
    /\ pc[w] = "writing"
    /\ sync(w)
    /\ pc' = [pc EXCEPT ![w] = IF ~range[w].has THEN "syncWrite" ELSE "syncUpdate"]
    /\ timedOut' = [timedOut EXCEPT ![w] = FALSE]
    /\ startMax' = [startMax EXCEPT ![w] = ledgerRange[TRUE]]
    /\ UNCHANGED <<auxVars, ledgerRange, objects, successor, cache_, range, ledgerSequence_,
                   numRequestsOutstanding_, inflight, errs, res, sawExpected, changed>>

\* The rows a statement changes when the server executes it.
Touched(lr, newSeq, isLatest, expected) ==
    IF UpdateLedgerRange(lr, newSeq, isLatest, expected) # lr THEN {isLatest} ELSE {}

\* One attempt of executeSyncWrite(updateLedgerRange_(seq, false, seq)): any
\* non-OK result is retried, OK ends the loop.
ExecuteSyncWrite(w, outcome) ==
    /\ pc[w] = "syncWrite"
    /\ outcome # "ok" => errs[w] < MaxErrs
    /\ LET s == ledgerSequence_[w]
           executed == outcome # "err"
       IN /\ ledgerRange' = IF executed THEN UpdateLedgerRange(ledgerRange, s, FALSE, s)
                                        ELSE ledgerRange
          /\ changed' = [changed EXCEPT ![w] =
                           IF executed THEN @ \cup Touched(ledgerRange, s, FALSE, s) ELSE @]
    /\ errs' = [errs EXCEPT ![w] = IF outcome = "ok" THEN @ ELSE @ + 1]
    /\ pc' = [pc EXCEPT ![w] = IF outcome = "ok" THEN "syncUpdate" ELSE @]
    /\ UNCHANGED <<auxVars, startMax, objects, successor, cache_, range, ledgerSequence_,
                   numRequestsOutstanding_, inflight, timedOut, res, sawExpected>>

\* The return value of executeSyncUpdate once an attempt returned CASS_OK.
executeSyncUpdate(success, timedOut_) == success \/ timedOut_

\* BackendInterface::updateRange(newMax)
updateRange(r, newMax) ==
    IF ~r.has THEN [has |-> TRUE, min |-> newMax, max |-> newMax]
    ELSE [r EXCEPT !.max = newMax]

\* One failed attempt of executeSyncUpdate(updateLedgerRange_(seq, true, seq-1)).
ExecuteSyncUpdateError(w, outcome) ==
    /\ pc[w] = "syncUpdate"
    /\ outcome # "ok"
    /\ errs[w] < MaxErrs
    /\ LET s == ledgerSequence_[w]
           executed == outcome = "errApplied"
       IN /\ ledgerRange' = IF executed THEN UpdateLedgerRange(ledgerRange, s, TRUE, s - 1)
                                        ELSE ledgerRange
          /\ changed' = [changed EXCEPT ![w] =
                           IF executed THEN @ \cup Touched(ledgerRange, s, TRUE, s - 1) ELSE @]
          /\ sawExpected' = [sawExpected EXCEPT ![w] =
                               @ \/ RangeUpdateApplies(ledgerRange, TRUE, s - 1)]
    /\ timedOut' = [timedOut EXCEPT ![w] = TRUE]
    /\ errs' = [errs EXCEPT ![w] = @ + 1]
    /\ UNCHANGED <<auxVars, startMax, objects, successor, cache_, range, ledgerSequence_,
                   numRequestsOutstanding_, inflight, pc, res>>

\* The attempt of executeSyncUpdate that returns CASS_OK, the rest of
\* doFinishWrites and of finishWrites(seq): updateRange on success.
FinishWritesReturn(w) ==
    /\ pc[w] = "syncUpdate"
    /\ LET s == ledgerSequence_[w]
           success == RangeUpdateApplies(ledgerRange, TRUE, s - 1)
           commitRes == executeSyncUpdate(success, timedOut[w])
       IN /\ ledgerRange' = UpdateLedgerRange(ledgerRange, s, TRUE, s - 1)
          /\ changed' = [changed EXCEPT ![w] = @ \cup Touched(ledgerRange, s, TRUE, s - 1)]
          /\ sawExpected' = [sawExpected EXCEPT ![w] = @ \/ success]
          /\ range' = [range EXCEPT ![w] = IF commitRes THEN updateRange(@, s) ELSE @]
          /\ res' = [res EXCEPT ![w] = IF commitRes THEN "true" ELSE "false"]
    /\ pc' = [pc EXCEPT ![w] = "idle"]
    /\ timedOut' = [timedOut EXCEPT ![w] = FALSE]
    /\ errs' = [errs EXCEPT ![w] = 0]
    /\ UNCHANGED <<auxVars, startMax, objects, successor, cache_, ledgerSequence_,
                   numRequestsOutstanding_, inflight>>

\* -------------------------------------------------- the commit protocol
\* Processes sharing the store commit ledgers of any sequence; the data writes
\* of a ledger are left to SpecRead.
Next ==
    \E w \in Writers :
        \/ \E seq \in 1..MaxCommitSeq : WriteLedger(w, seq)
        \/ DoFinishWritesSync(w)
        \/ \E outcome \in Outcomes : ExecuteSyncWrite(w, outcome)
        \/ \E outcome \in Outcomes : ExecuteSyncUpdateError(w, outcome)
        \/ FinishWritesReturn(w)

Spec == Init /\ [][Next]_vars

\* ---------------------------------------------------------------- cache
\* get(key, seq): a miss before setFull and for seq < latestSeq; otherwise the
\* cached blob of a key that is present or known absent (the empty blob).
cacheGet(key, seq) ==
    IF ~cache_.full \/ seq < cache_.latestSeq \/ key \notin Keys THEN NoBlob(0)
    ELSE LET e == cache_.map[key] IN
         IF e.in THEN SomeBlob(e.blob, e.seq) ELSE NoBlob(0)

\* getSuccessor(key, seq): the smallest key of the ordered index greater than key.
cacheGetSuccessor(key, seq) ==
    IF ~cache_.full \/ seq < cache_.latestSeq THEN NoKey(0)
    ELSE LET gt == {k \in cache_.index : k > key} IN
         IF gt = {} THEN NoKey(0) ELSE SomeKey(Min(gt), cache_.latestSeq)

\* update(diff, seq): an empty blob removes the key from the ordered index, a
\* non-empty one inserts or replaces.
cacheUpdate(c, diff, seq) ==
    [c EXCEPT
       !.map = [k \in Keys |->
                  IF \E r \in diff : r.key = k
                  THEN LET r == CHOOSE r \in diff : r.key = k
                       IN [in |-> TRUE, seq |-> seq, blob |-> r.val]
                  ELSE @[k]],
       !.index = (@ \ {r.key : r \in {r \in diff : Len(r.val) = 0}})
                   \cup {r.key : r \in {r \in diff : Len(r.val) > 0}},
       !.latestSeq = seq]

\* ------------------------------------------------------------------ ETL
\* State at sequence seq: the keys whose latest row at or before seq is no tombstone.
LiveAt(seq) == {k \in Keys : doFetchLedgerObject(k, seq).has}
NextIn(live, k) == IF {x \in live : x > k} = {} THEN lastKey ELSE Min({x \in live : x > k})

\* The live keys once the ledger w is writing is applied.
NewLive(w) ==
    (LiveAt(ledgerSequence_[w] - 1) \cup {r.key : r \in {r \in DiffOf(w) : Len(r.val) > 0}})
        \ {r.key : r \in {r \in DiffOf(w) : Len(r.val) = 0}}

\* One successor link per changed slot of the ordered key set.
Links(w) ==
    LET old == LiveAt(ledgerSequence_[w] - 1)
        new == NewLive(w)
    IN {[key |-> k, seq |-> ledgerSequence_[w], val |-> <<NextIn(new, k)>>] :
          k \in {k \in new \cup {firstKey} :
                   (k # firstKey /\ k \notin old) \/ NextIn(new, k) # NextIn(old, k)}}

\* writeSuccessor(prevKey, seq, nextKey), in key order.
WriteSuccessor(w) ==
    /\ pc[w] = "writing"
    /\ DiffOf(w) # {}
    /\ cache_.latestSeq < ledgerSequence_[w]
    /\ Links(w) \ LinksOf(w) # {}
    /\ LET todo == Links(w) \ LinksOf(w)
           r == CHOOSE r \in todo : \A q \in todo : r.key <= q.key
       IN AsyncWrite(w, Request("successor", r.key, r.seq, r.val))
    /\ UNCHANGED <<auxVars, startMax, ledgerRange, objects, successor, cache_, range,
                   ledgerSequence_,
                   pc, timedOut, errs, res, sawExpected, changed>>

\* The ETL applies the ledger's changes to the cache once its writes are issued.
CacheUpdate(w) ==
    /\ pc[w] = "writing"
    /\ DiffOf(w) # {}
    /\ Links(w) \subseteq LinksOf(w)
    /\ cache_.latestSeq < ledgerSequence_[w]
    /\ cache_' = cacheUpdate(cache_, DiffOf(w), ledgerSequence_[w])
    /\ UNCHANGED <<auxVars, startMax, ledgerRange, objects, successor, range, ledgerSequence_,
                   numRequestsOutstanding_, inflight, pc, timedOut, errs, res,
                   sawExpected, changed>>

\* setFull(): the cache becomes authoritative.
SetFull ==
    /\ ~cache_.full
    /\ cache_' = [cache_ EXCEPT !.full = TRUE]
    /\ UNCHANGED <<auxVars, startMax, ledgerRange, objects, successor, range, ledgerSequence_,
                   numRequestsOutstanding_, inflight, pc, timedOut, errs, res,
                   sawExpected, changed>>

\* ------------------------------------------------------------ read path
\* A fetchLedgerObject whose store read is not bounded by the asked sequence.
fetchLedgerObjectUnbounded(key, sequence) ==
    LET obj == cacheGet(key, sequence) IN
    IF obj.has THEN obj ELSE doFetchLedgerObject(key, sequence + 1)

\* BackendInterface::fetchLedgerObject
fetchLedgerObject(key, sequence) ==
    LET obj == cacheGet(key, sequence) IN
    IF obj.has THEN obj ELSE doFetchLedgerObject(key, sequence)

\* The second loop of fetchLedgerObjects from index i on: an element left empty by
\* the cache loop takes objs[j]; oob is what a read of objs[j] beyond the end of
\* objs yields.
RECURSIVE FillMisses(_, _, _, _, _)
FillMisses(results, objs, i, j, oob) ==
    IF i > Len(results) THEN <<>>
    ELSE IF Len(results[i]) = 0
         THEN <<IF j <= Len(objs) THEN objs[j] ELSE oob>>
                 \o FillMisses(results, objs, i + 1, j + 1, oob)
         ELSE <<results[i]>> \o FillMisses(results, objs, i + 1, j, oob)

\* The first loop of fetchLedgerObjects: results holds the cache's answer for a
\* hit and stays empty for a miss; misses collects the keys the cache did not
\* answer.
CacheLoopResults(keys, sequence) ==
    [i \in 1..Len(keys) |-> LET obj == cacheGet(keys[i], sequence)
                            IN IF obj.has THEN obj.val ELSE EmptyBlob]
CacheLoopMisses(keys, sequence) ==
    SelectSeq(keys, LAMBDA k : ~cacheGet(k, sequence).has)

\* BackendInterface::fetchLedgerObjects
fetchLedgerObjects(keys, sequence, oob) ==
    LET results == CacheLoopResults(keys, sequence)
        misses == CacheLoopMisses(keys, sequence)
    IN IF Len(misses) = 0 THEN results
       ELSE FillMisses(results, doFetchLedgerObjects(misses, sequence), 1, 1, oob)

\* A fetchSuccessorKey without the fallback to the store.
fetchSuccessorKeyCacheOnly(key, ledgerSequence) == cacheGetSuccessor(key, ledgerSequence)

\* BackendInterface::fetchSuccessorKey
fetchSuccessorKey(key, ledgerSequence) ==
    LET succ == cacheGetSuccessor(key, ledgerSequence) IN
    IF succ.has THEN succ ELSE doFetchSuccessorKey(key, ledgerSequence)

\* The loop of fetchLedgerPage that collects up to limit successor keys.
RECURSIVE PageKeys(_, _, _, _)
PageKeys(keys, cursor, ledgerSequence, limit) ==
    IF Len(keys) < limit
    THEN LET curCursor == IF Len(keys) > 0 THEN keys[Len(keys)]
                          ELSE IF cursor.has THEN cursor.val ELSE firstKey
             succ == fetchSuccessorKey(curCursor, ledgerSequence)
         IN IF ~succ.has THEN keys
            ELSE PageKeys(Append(keys, succ.val), cursor, ledgerSequence, limit)
    ELSE keys

\* A fetchLedgerPage that returns a cursor only for a page longer than limit.
fetchLedgerPageShortCursor(cursor, ledgerSequence, limit, oob) ==
    LET keys == PageKeys(<<>>, cursor, ledgerSequence, limit)
        objs == fetchLedgerObjects(keys, ledgerSequence, oob)
    IN [keys |-> keys,
        blobs |-> objs,
        asserted |-> \A i \in 1..Len(objs) : Len(objs[i]) > 0,
        cursor |-> IF Len(objs) > limit THEN SomeKey(keys[Len(objs)], 0) ELSE NoKey(0)]

\* BackendInterface::fetchLedgerPage: the page's keys and blobs, its cursor, and
\* whether assert(objects[i].size()) held; back() of an empty page is key -1.
fetchLedgerPage(cursor, ledgerSequence, limit, oob) ==
    LET keys == PageKeys(<<>>, cursor, ledgerSequence, limit)
        objs == fetchLedgerObjects(keys, ledgerSequence, oob)
    IN [keys |-> keys,
        blobs |-> objs,
        asserted |-> \A i \in 1..Len(objs) : Len(objs[i]) > 0,
        cursor |-> IF Len(objs) >= limit
                   THEN IF Len(objs) = 0 THEN SomeKey(-1, 0)
                        ELSE SomeKey(keys[Len(objs)], 0)
                   ELSE NoKey(0)]

\* ------------------------------------------------------- the read model
\* One process writes consecutive ledgers (objects, links, cache update,
\* finishWrites); its readers use its range and its cache.
NextSeq(w) == IF range[w].has THEN range[w].max + 1 ELSE 1

NextRead ==
    \/ NextSeq(ReadWriter) <= MaxSeq /\ WriteLedger(ReadWriter, NextSeq(ReadWriter))
    \/ \E key \in Keys : \E blob \in {BlobAt(ledgerSequence_[ReadWriter]), EmptyBlob} :
          /\ cache_.latestSeq < ledgerSequence_[ReadWriter]
          /\ WriteLedgerObject(ReadWriter, key, blob)
    \/ WriteSuccessor(ReadWriter)
    \/ CacheUpdate(ReadWriter)
    \/ SetFull
    \/ \E req \in inflight[ReadWriter] : AsyncWriteOk(ReadWriter, req)
    \/ \E req \in inflight[ReadWriter] : \E applied \in BOOLEAN :
          AsyncWriteError(ReadWriter, req, applied)
    \/ cache_.latestSeq = ledgerSequence_[ReadWriter] /\ DoFinishWritesSync(ReadWriter)
    \/ \E outcome \in Outcomes : ExecuteSyncWrite(ReadWriter, outcome)
    \/ \E outcome \in Outcomes : ExecuteSyncUpdateError(ReadWriter, outcome)
    \/ FinishWritesReturn(ReadWriter)

SpecRead == Init /\ [][NextRead]_vars

\* ------------------------------------------------------------ retention
\* The keys a ledger changed (its diff row).
DiffKeys(s) == {r.key : r \in {r \in objects : r.seq = s}}

\* The prune rule without the exception for the latest row at or before minKeep.
PrunedRowsAll(tbl, keys, minKeep) ==
    {r \in tbl : r.key \in keys /\ r.seq < minKeep}

\* The rows of the given keys retention deletes: those with seq < minKeep, except
\* a key's latest row with seq <= minKeep.
PrunedRows(tbl, keys, minKeep) ==
    {r \in tbl : /\ r.key \in keys
                 /\ r.seq < minKeep
                 /\ r # LatestRow(RowsUpTo(tbl, r.key, minKeep))}

\* doOnlineDelete(numLedgersToKeep): reads the range, prunes the objects and
\* successor rows of the keys touched in [range.min, minKeep), then advances the
\* range's min with a conditional update.
DoOnlineDelete(numLedgersToKeep) ==
    /\ ledgerRange[TRUE] # Null
    /\ ledgerRange[FALSE] # Null
    /\ LET minKeep == ledgerRange[TRUE] - numLedgersToKeep + 1
           old == ledgerRange[FALSE]..(minKeep - 1)
           keys == UNION {DiffKeys(s) : s \in old}
           linkKeys == {r.key : r \in {r \in successor : r.seq \in old}}
       IN /\ minKeep > ledgerRange[FALSE]
          /\ objects' = objects \ PrunedRows(objects, keys, minKeep)
          /\ successor' = successor \ PrunedRows(successor, linkKeys, minKeep)
          /\ ledgerRange' = UpdateLedgerRange(ledgerRange, minKeep, FALSE, ledgerRange[FALSE])
    /\ UNCHANGED <<auxVars, startMax, cache_, range, ledgerSequence_,
                   numRequestsOutstanding_, inflight,
                   pc, timedOut, errs, res, sawExpected, changed>>

NextDelete ==
    \/ NextRead
    \/ \E numLedgersToKeep \in 1..MaxSeq :
          DoOnlineDelete(numLedgersToKeep)

SpecDelete == Init /\ [][NextDelete]_vars

\* --------------------------------------------------------- thread model
\* The request counter, the two mutexes and the two condition variables, one
\* step per atomic operation or critical section of the code.  One thread issues
\* the writes and then calls sync(); the driver's threads run the callbacks.
storeVars == <<ledgerRange, objects, successor, cache_, range, ledgerSequence_,
               inflight, pc, timedOut, errs, res, sawExpected, changed, call, issuer,
               reads, bookWalk, statement, startMax>>
Count == numRequestsOutstanding_[ReadWriter]
SetCount(n) == numRequestsOutstanding_' = [numRequestsOutstanding_ EXCEPT ![ReadWriter] = n]
At(t, where) == tpc[t] = where
Goto(t, where) == tpc' = [tpc EXCEPT ![t] = where]

\* A lock that is taken whoever holds the mutex.
canLockAlways(m) == TRUE

\* std::unique_lock / std::lock_guard: the mutex is taken when nobody holds it.
canLock(m) == held[m] = NoThread

\* A notification that wakes nobody.
NotifyNobody(m, t) ==
    /\ UNCHANGED waiting
    /\ tpc' = [tpc EXCEPT ![t[1]] = t[2]]

\* condition_variable::notify_one: one of the threads blocked in the wait, if
\* there is one, leaves it and has to take the mutex again.
Woken(m) == IF m = "throttle" THEN "admitWoken" ELSE "syncWoken"
NotifyOne(m, t) ==
    IF waiting[m] = {}
    THEN /\ UNCHANGED waiting
         /\ tpc' = [tpc EXCEPT ![t[1]] = t[2]]
    ELSE \E woken \in waiting[m] :
            /\ waiting' = [waiting EXCEPT ![m] = @ \ {woken}]
            /\ tpc' = [u \in Threads |-> IF u = woken THEN Woken(m)
                                         ELSE IF u = t[1] THEN t[2] ELSE tpc[u]]

\* incremementOutstandingRequestCount: std::unique_lock lck(throttleMutex_).
AdmitLock ==
    /\ At(SyncThread, "issue") /\ toIssue > 0
    /\ canLock("throttle")
    /\ held' = [held EXCEPT !["throttle"] = SyncThread]
    /\ Goto(SyncThread, "admitCheck")
    /\ UNCHANGED <<storeVars, numRequestsOutstanding_, waiting, pending, toIssue, cur,
                   budget, seen>>

\* The test of canAddRequest(), by the if and by the wait's predicate, with the
\* mutex held; when it holds the block ends and the mutex is released.
AdmitCheck ==
    /\ At(SyncThread, "admitCheck")
    /\ IF canAddRequest(Count)
       THEN /\ held' = [held EXCEPT !["throttle"] = NoThread]
            /\ Goto(SyncThread, "increment")
       ELSE /\ Goto(SyncThread, "admitBlock")
            /\ UNCHANGED held
    /\ UNCHANGED <<storeVars, numRequestsOutstanding_, waiting, pending, toIssue, cur,
                   budget, seen>>

\* throttleCv_.wait: releases the mutex and blocks, atomically.
AdmitBlock ==
    /\ At(SyncThread, "admitBlock")
    /\ held' = [held EXCEPT !["throttle"] = NoThread]
    /\ waiting' = [waiting EXCEPT !["throttle"] = @ \cup {SyncThread}]
    /\ Goto(SyncThread, "admitWait")
    /\ UNCHANGED <<storeVars, numRequestsOutstanding_, pending, toIssue, cur, budget, seen>>

\* throttleCv_.wait after a wake-up: takes the mutex again, then tests again.
AdmitReacquire ==
    /\ At(SyncThread, "admitWoken")
    /\ canLock("throttle")
    /\ held' = [held EXCEPT !["throttle"] = SyncThread]
    /\ Goto(SyncThread, "admitCheck")
    /\ UNCHANGED <<storeVars, numRequestsOutstanding_, waiting, pending, toIssue, cur,
                   budget, seen>>

\* ++numRequestsOutstanding_, after the mutex is released, and executeAsyncHelper:
\* the statement is handed to the driver.
Increment ==
    /\ At(SyncThread, "increment")
    /\ SetCount(executeAsyncWrite(Count, FALSE))
    /\ pending' = pending + 1
    /\ toIssue' = toIssue - 1
    /\ Goto(SyncThread, "issue")
    /\ UNCHANGED <<storeVars, held, waiting, cur, budget, seen>>

\* sync(): std::unique_lock lck(syncMutex_).
SyncLock ==
    /\ At(SyncThread, "issue") /\ toIssue = 0
    /\ canLock("sync")
    /\ held' = [held EXCEPT !["sync"] = SyncThread]
    /\ Goto(SyncThread, "syncCheck")
    /\ UNCHANGED <<storeVars, numRequestsOutstanding_, waiting, pending, toIssue, cur,
                   budget, seen>>

\* The wait's predicate finishedAllRequests(), tested with the mutex held; when
\* it holds sync() returns and the mutex is released.
SyncCheck ==
    /\ At(SyncThread, "syncCheck")
    /\ IF sync(ReadWriter)
       THEN /\ held' = [held EXCEPT !["sync"] = NoThread]
            /\ seen' = [seen EXCEPT !.count = Count]
            /\ Goto(SyncThread, "done")
       ELSE /\ Goto(SyncThread, "syncBlock")
            /\ UNCHANGED <<held, seen>>
    /\ UNCHANGED <<storeVars, numRequestsOutstanding_, waiting, pending, toIssue, cur, budget>>

\* syncCv_.wait: releases the mutex and blocks, atomically.
SyncBlock ==
    /\ At(SyncThread, "syncBlock")
    /\ held' = [held EXCEPT !["sync"] = NoThread]
    /\ waiting' = [waiting EXCEPT !["sync"] = @ \cup {SyncThread}]
    /\ seen' = [seen EXCEPT !.blocked = TRUE]
    /\ Goto(SyncThread, "syncWait")
    /\ UNCHANGED <<storeVars, numRequestsOutstanding_, pending, toIssue, cur, budget>>

\* syncCv_.wait after a wake-up: takes the mutex again, then tests again.
SyncReacquire ==
    /\ At(SyncThread, "syncWoken")
    /\ canLock("sync")
    /\ held' = [held EXCEPT !["sync"] = SyncThread]
    /\ Goto(SyncThread, "syncCheck")
    /\ UNCHANGED <<storeVars, numRequestsOutstanding_, waiting, pending, toIssue, cur,
                   budget, seen>>

\* A wait may end without a notification (spurious wake-up).
SpuriousWakeup(m) ==
    /\ SyncThread \in waiting[m]
    /\ budget.spurious > 0
    /\ budget' = [budget EXCEPT !.spurious = @ - 1]
    /\ NotifyOne(m, <<SyncThread, Woken(m)>>)
    /\ UNCHANGED <<storeVars, numRequestsOutstanding_, held, pending, toIssue, cur, seen>>

\* The driver runs the callback of a statement with an error: the statement is
\* issued again with isRetry = true.
CallbackRetry(t) ==
    /\ At(t, "idle") /\ pending > 0
    /\ budget.errors > 0
    /\ budget' = [budget EXCEPT !.errors = @ - 1]
    /\ SetCount(executeAsyncWrite(Count, TRUE))
    /\ UNCHANGED <<storeVars, tpc, held, waiting, pending, toIssue, cur, seen>>

\* The driver runs the callback of a statement with CASS_OK: finishAsyncWrite ->
\* decrementOutstandingRequestCount, the sanity check on the counter.
CallbackSanityCheck(t) ==
    /\ At(t, "idle") /\ pending > 0
    /\ pending' = pending - 1
    /\ Goto(t, IF Count = 0 THEN "threw" ELSE "decrement")
    /\ UNCHANGED <<storeVars, numRequestsOutstanding_, held, waiting, toIssue, cur,
                   budget, seen>>

\* size_t cur = (--numRequestsOutstanding_): one atomic step, outside any mutex.
CallbackDecrement(t) ==
    /\ At(t, "decrement")
    /\ SetCount(finishAsyncWrite(Count))
    /\ cur' = [cur EXCEPT ![t] = finishAsyncWrite(Count)]
    /\ Goto(t, "throttleNotify")
    /\ UNCHANGED <<storeVars, held, waiting, pending, toIssue, budget, seen>>

\* { std::lock_guard lck(throttleMutex_); throttleCv_.notify_one(); }
CallbackThrottleNotify(t) ==
    /\ At(t, "throttleNotify")
    /\ canLock("throttle")
    /\ NotifyOne("throttle", <<t, IF cur[t] = 0 THEN "syncNotify" ELSE "idle">>)
    /\ UNCHANGED <<storeVars, numRequestsOutstanding_, held, pending, toIssue, cur,
                   budget, seen>>

\* if (cur == 0) { std::lock_guard lck(syncMutex_); syncCv_.notify_one(); }
CallbackSyncNotify(t) ==
    /\ At(t, "syncNotify")
    /\ canLock("sync")
    /\ NotifyOne("sync", <<t, "idle">>)
    /\ UNCHANGED <<storeVars, numRequestsOutstanding_, held, pending, toIssue, cur,
                   budget, seen>>

IssuerStep ==
    \/ AdmitLock
    \/ AdmitCheck
    \/ AdmitBlock
    \/ AdmitReacquire
    \/ Increment
    \/ SyncLock
    \/ SyncCheck
    \/ SyncBlock
    \/ SyncReacquire

CallbackStep(t) ==
    \/ CallbackSanityCheck(t)
    \/ CallbackDecrement(t)
    \/ CallbackThrottleNotify(t)
    \/ CallbackSyncNotify(t)

NextSync ==
    \/ IssuerStep
    \/ \E t \in Callbacks : CallbackStep(t)
    \/ \E t \in Callbacks : CallbackRetry(t)
    \/ \E m \in {"throttle", "sync"} : SpuriousWakeup(m)

InitSync ==
    /\ InitStore
    /\ \E writes \in 0..MaxWrites : InitThreads(writes)
    /\ call = NoCall
    /\ issuer \in {"etl", "retention"}
    /\ reads = NoReads
    /\ bookWalk = NoWalk
    /\ statement = NoStatement

\* Every thread that can take a step is scheduled in the end, and the driver runs
\* the callback of every statement it holds; errors and spurious wake-ups are
\* not owed.
SpecSync ==
    /\ InitSync
    /\ [][NextSync]_vars
    /\ WF_vars(IssuerStep)
    /\ \A t \in Callbacks : WF_vars(CallbackStep(t))

\* ------------------------------------------------- concurrent admission
\* Two threads issue async writes at once. Each takes one of the writes still to
\* issue and runs incremementOutstandingRequestCount and executeAsyncHelper.
ConcurrentAdmitLock(t) ==
    /\ At(t, "issue") /\ toIssue > 0
    /\ canLock("throttle")
    /\ held' = [held EXCEPT !["throttle"] = t]
    /\ toIssue' = toIssue - 1
    /\ Goto(t, "admitCheck")
    /\ UNCHANGED <<storeVars, numRequestsOutstanding_, waiting, pending, cur, budget, seen>>

\* The test of canAddRequest() with the mutex held; when it holds the block ends
\* and the mutex is released.
ConcurrentAdmitCheck(t) ==
    /\ At(t, "admitCheck")
    /\ IF canAddRequest(Count)
       THEN /\ held' = [held EXCEPT !["throttle"] = NoThread]
            /\ Goto(t, "increment")
       ELSE /\ Goto(t, "admitBlock")
            /\ UNCHANGED held
    /\ UNCHANGED <<storeVars, numRequestsOutstanding_, waiting, pending, toIssue, cur,
                   budget, seen>>

\* throttleCv_.wait: releases the mutex and blocks, atomically.
ConcurrentAdmitBlock(t) ==
    /\ At(t, "admitBlock")
    /\ held' = [held EXCEPT !["throttle"] = NoThread]
    /\ waiting' = [waiting EXCEPT !["throttle"] = @ \cup {t}]
    /\ Goto(t, "admitWait")
    /\ UNCHANGED <<storeVars, numRequestsOutstanding_, pending, toIssue, cur, budget, seen>>

\* throttleCv_.wait after a wake-up: takes the mutex again, then tests again.
ConcurrentAdmitReacquire(t) ==
    /\ At(t, "admitWoken")
    /\ canLock("throttle")
    /\ held' = [held EXCEPT !["throttle"] = t]
    /\ Goto(t, "admitCheck")
    /\ UNCHANGED <<storeVars, numRequestsOutstanding_, waiting, pending, toIssue, cur,
                   budget, seen>>

\* ++numRequestsOutstanding_, after the mutex is released, and executeAsyncHelper.
ConcurrentIncrement(t) ==
    /\ At(t, "increment")
    /\ SetCount(executeAsyncWrite(Count, FALSE))
    /\ pending' = pending + 1
    /\ Goto(t, "issue")
    /\ UNCHANGED <<storeVars, held, waiting, toIssue, cur, budget, seen>>

ConcurrentIssuerStep(t) ==
    \/ ConcurrentAdmitLock(t)
    \/ ConcurrentAdmitCheck(t)
    \/ ConcurrentAdmitBlock(t)
    \/ ConcurrentAdmitReacquire(t)
    \/ ConcurrentIncrement(t)

NextConcurrent ==
    \/ \E t \in Issuers : ConcurrentIssuerStep(t)
    \/ \E t \in Callbacks : CallbackStep(t)

InitConcurrent ==
    /\ InitStore
    /\ call = NoCall /\ issuer = "etl" /\ reads = NoReads /\ bookWalk = NoWalk
    /\ statement = NoStatement
    /\ tpc = [t \in Threads |-> IF t \in Issuers THEN "issue" ELSE "idle"]
    /\ held = [m \in {"throttle", "sync"} |-> NoThread]
    /\ waiting = [m \in {"throttle", "sync"} |-> {}]
    /\ pending = 0
    /\ toIssue \in 1..MaxWrites
    /\ cur = [t \in Callbacks |-> 0]
    /\ budget = [errors |-> 0, spurious |-> 0]
    /\ seen = NotSeen

SpecConcurrent == InitConcurrent /\ [][NextConcurrent]_vars

\* ---------------------------------------------------------- batch model
\* doFetchLedgerObjects issues one async read per key through executeAsyncRead
\* while the writes of the thread model go on; the driver completes the reads.
\* The counter after executeAsyncRead: executeAsyncHelper only, no admission.
executeAsyncRead(n) == n

ExecuteAsyncRead ==
    /\ reads.toIssue > 0
    /\ reads' = [toIssue |-> reads.toIssue - 1, inFlight |-> reads.inFlight + 1]
    /\ SetCount(executeAsyncRead(Count))
    /\ UNCHANGED <<ledgerRange, objects, successor, cache_, range, ledgerSequence_,
                   inflight, pc, timedOut, errs, res, sawExpected, changed, call,
                   issuer, threadVars, bookWalk, statement, startMax>>

\* The driver runs the callback of a read.
ReadCallback ==
    /\ reads.inFlight > 0
    /\ reads' = [reads EXCEPT !.inFlight = @ - 1]
    /\ UNCHANGED <<ledgerRange, objects, successor, cache_, range, ledgerSequence_,
                   numRequestsOutstanding_, inflight, pc, timedOut, errs, res,
                   sawExpected, changed, call, issuer, threadVars, bookWalk,
                   statement, startMax>>

NextBatch ==
    \/ NextSync
    \/ ExecuteAsyncRead
    \/ ReadCallback

InitBatch ==
    /\ InitStore
    /\ \E writes \in 0..MaxWrites : InitThreads(writes)
    /\ call = NoCall
    /\ issuer = "etl"
    /\ \E n \in 1..MaxBatch : reads = [toIssue |-> n, inFlight |-> 0]
    /\ bookWalk = NoWalk
    /\ statement = NoStatement

SpecBatch == InitBatch /\ [][NextBatch]_vars

\* ----------------------------------------------------------- call model
\* One synchronous call (executeSyncRead, executeSyncWrite, executeSyncUpdate, or
\* hardFetchLedgerRangeNoThrow over executeSyncRead) against a sequence of driver
\* results, one step per iteration of the call's loop.
CASS_OK == "CASS_OK"
InvalidQuery == "CASS_ERROR_SERVER_INVALID_QUERY"
\* The timeout class of the specification's error taxonomy.
TimeoutClass ==
    {"CASS_ERROR_LIB_NO_HOSTS_AVAILABLE", "CASS_ERROR_LIB_REQUEST_TIMED_OUT",
     "CASS_ERROR_SERVER_UNAVAILABLE", "CASS_ERROR_SERVER_OVERLOADED",
     "CASS_ERROR_SERVER_READ_TIMEOUT"}
\* Driver errors that are neither timeout class nor invalid query.
OtherErrors == {"CASS_ERROR_SERVER_WRITE_TIMEOUT"}
Codes == {CASS_OK, InvalidQuery} \cup TimeoutClass \cup OtherErrors
RECURSIVE SeqsUpTo(_, _)
SeqsUpTo(S, n) ==
    IF n = 0 THEN {<<>>}
    ELSE LET shorter == SeqsUpTo(S, n - 1)
         IN shorter \cup {Append(q, x) : q \in {q \in shorter : Len(q) = n - 1}, x \in S}
Scripts == SeqsUpTo(Codes, MaxScript) \ {<<>>}
Ops == {"read", "write", "update", "rangeNoThrow"}
\* What the result of an OK conditional update holds: [applied] true or false,
\* no row, or a first column that is not a boolean.
Rows == {"true", "false", "noRow", "notBool"}
SomeRange == [has |-> TRUE, min |-> 1, max |-> MaxSeq]

\* isTimeout without CASS_ERROR_SERVER_READ_TIMEOUT.
isTimeoutWithoutReadTimeout(rc) ==
    \/ rc = "CASS_ERROR_LIB_NO_HOSTS_AVAILABLE"
    \/ rc = "CASS_ERROR_LIB_REQUEST_TIMED_OUT"
    \/ rc = "CASS_ERROR_SERVER_UNAVAILABLE"
    \/ rc = "CASS_ERROR_SERVER_OVERLOADED"

isTimeout(rc) ==
    \/ rc = "CASS_ERROR_LIB_NO_HOSTS_AVAILABLE"
    \/ rc = "CASS_ERROR_LIB_REQUEST_TIMED_OUT"
    \/ rc = "CASS_ERROR_SERVER_UNAVAILABLE"
    \/ rc = "CASS_ERROR_SERVER_OVERLOADED"
    \/ rc = "CASS_ERROR_SERVER_READ_TIMEOUT"

\* A loop condition that gives up on the first error.
writeLoopsNever(rc) == FALSE

\* executeSyncWrite: while (rc != CASS_OK)
writeLoops(rc) == rc # CASS_OK

\* A handler that catches every exception.
catchesAny(e) == e # "value"

\* hardFetchLedgerRangeNoThrow: catch (DatabaseTimeout& t)
catches(e) == e = "DatabaseTimeout"

\* How one iteration of executeSyncRead's loop ends for the driver result rc.
executeSyncRead(rc) ==
    IF isTimeout(rc) THEN "DatabaseTimeout"
    ELSE IF rc = InvalidQuery THEN "runtime_error"
    ELSE IF rc # CASS_OK THEN "reading"
    ELSE "value"

callFrame == <<ledgerRange, objects, successor, cache_, range, ledgerSequence_,
               numRequestsOutstanding_, inflight, pc, timedOut, errs, res,
               sawExpected, changed, threadVars, issuer, reads, bookWalk,
               statement, startMax>>

InitCall ==
    /\ InitStore
    /\ InitThreads(0)
    /\ issuer = "etl"
    /\ reads = NoReads
    /\ bookWalk = NoWalk
    /\ statement = NoStatement
    /\ \E op \in Ops : \E script \in Scripts : \E row \in Rows : \E value \in {NoRange, SomeRange} :
          /\ op # "update" => row = "true"
          /\ op # "rangeNoThrow" => value = SomeRange
          /\ call = [NoCall EXCEPT !.op = op, !.script = script, !.row = row,
                                   !.value = value, !.state = "running",
                                   !.inner = IF op = "read" THEN "reading" ELSE "idle"]

\* cass_session_execute and cass_future_error_code: a new future and the next
\* driver result; futures counts the futures created and not yet freed.
Issue(c) ==
    [c EXCEPT !.script = Tail(@), !.hist = Append(@, Head(c.script)), !.futures = @ + 1]

\* cass_future_free(fut): fut is the future of the last attempt.
Free(c) == [c EXCEPT !.futures = @ - 1]

\* executeSyncWrite, one iteration of the do-while.
SyncWriteAttempt ==
    /\ call.op = "write" /\ call.state = "running"
    /\ call.script # <<>>
    /\ LET rc == Head(call.script)
       IN call' = IF writeLoops(rc) THEN Issue(call)
                  ELSE [Free(Issue(call)) EXCEPT !.state = "returned"]
    /\ UNCHANGED callFrame

\* executeSyncUpdate, one iteration of the do-while, and after CASS_OK the rest
\* of the function.
SyncUpdateAttempt ==
    /\ call.op = "update" /\ call.state = "running"
    /\ call.script # <<>>
    /\ LET rc == Head(call.script)
       IN call' = IF rc # CASS_OK
                  THEN [Issue(call) EXCEPT !.timedOut = TRUE]
                  ELSE [Free(Issue(call)) EXCEPT
                          !.state = "returned",
                          !.result = IF call.row \in {"noRow", "notBool"} THEN FALSE
                                     ELSE executeSyncUpdate(call.row = "true", call.timedOut)]
    /\ UNCHANGED callFrame

\* executeSyncRead, one iteration of the do-while; called directly or by
\* hardFetchLedgerRange.
SyncReadAttempt ==
    /\ call.op \in {"read", "rangeNoThrow"} /\ call.state = "running"
    /\ call.inner = "reading"
    /\ call.script # <<>>
    /\ LET end == executeSyncRead(Head(call.script))
           freed == IF end \in {"DatabaseTimeout", "value"} THEN Free(Issue(call))
                    ELSE Issue(call)
       IN call' = [freed EXCEPT
                     !.inner = end,
                     !.state = IF call.op = "read" /\ end # "reading"
                               THEN (IF end = "value" THEN "returned" ELSE end)
                               ELSE @,
                     !.result = IF call.op = "read" /\ end = "value" THEN "value" ELSE @]
    /\ UNCHANGED callFrame

\* hardFetchLedgerRangeNoThrow: the loop calls hardFetchLedgerRange.
HardFetchLedgerRangeCall ==
    /\ call.op = "rangeNoThrow" /\ call.state = "running"
    /\ call.inner = "idle"
    /\ call' = [call EXCEPT !.inner = "reading", !.attempts = @ + 1, !.hist = <<>>]
    /\ UNCHANGED callFrame

\* hardFetchLedgerRangeNoThrow: hardFetchLedgerRange returned or raised.
HardFetchLedgerRangeEnd ==
    /\ call.op = "rangeNoThrow" /\ call.state = "running"
    /\ call.inner \in {"value", "DatabaseTimeout", "runtime_error"}
    /\ call' = [call EXCEPT
                  !.raised = Append(@, call.inner),
                  !.inner = "idle",
                  !.state = IF catches(call.inner) THEN "running"
                            ELSE IF call.inner = "value" THEN "returned"
                            ELSE call.inner,
                  !.result = IF call.inner = "value" THEN call.value ELSE @]
    /\ UNCHANGED callFrame

NextCall ==
    \/ SyncWriteAttempt
    \/ SyncUpdateAttempt
    \/ SyncReadAttempt
    \/ HardFetchLedgerRangeCall
    \/ HardFetchLedgerRangeEnd

\* A running call takes its next step while the driver has an answer.
SpecCall == InitCall /\ [][NextCall]_vars /\ WF_vars(NextCall)

\* ----------------------------------------------------------- book model
\* One fetchBookOffers call on a ledger of offer directories. Keys are numbers.
\* The directories of the book have their root keys between book and
\* getQualityNext(book); the directory at BeyondRoot belongs to the next book.
book == 100
QualityRange == 3
getQualityNext(k) == k + QualityRange
bookEnd == getQualityNext(book)
BeyondRoot == 104
Roots == {101, 102, BeyondRoot}

\* keylet::page(root, index): the root itself for index 0, else a hash of both,
\* anywhere in the key space: below the book for the even roots, above every
\* book for the odd ones. A key derived from a key that is no root is a key of
\* nothing in the ledger.
PageKey(k, i) ==
    IF i = 0 THEN k
    ELSE IF k \in Roots
         THEN (IF k % 2 = 0 THEN 0 ELSE 1000) + 10 * (k - book) + i
         ELSE 10000 + 10 * k + i

\* The directory pages of the ledger the call reads: <<root, page index>>.
BookPages(w) == {n \in Roots \X (0..(MaxPages - 1)) : n[2] < w.pages[n[1]]}
BookLedger(w) == {PageKey(n[1], n[2]) : n \in BookPages(w)}
NodeAt(w, k) == CHOOSE n \in BookPages(w) : PageKey(n[1], n[2]) = k

\* The fields of a directory page: its offers <<root, page index, slot>>, and the
\* index of the next page of the directory, 0 on the last page.
sfIndexes(w, n) == [j \in 1..w.width |-> <<n[1], n[2], j>>]
sfIndexNext(w, n) == IF n[2] + 1 < w.pages[n[1]] THEN n[2] + 1 ELSE 0

\* fetchSuccessorObject on this ledger: the least key greater than k, 0 for none.
BookSuccessor(w, k) ==
    LET greater == {x \in BookLedger(w) : x > k} IN
    IF greater = {} THEN 0 ELSE Min(greater)

\* if (!offerDir || offerDir->key > bookEnd) break, for a directory found.
beyondBook(key) == key > bookEnd

bookFrame == <<ledgerRange, objects, successor, cache_, range, ledgerSequence_,
               numRequestsOutstanding_, inflight, pc, timedOut, errs, res,
               sawExpected, changed, threadVars, call, issuer, reads, statement,
               startMax>>

\* The state at the entry of fetchBookOffers(book, S, limit): uTipIndex = book,
\* keys empty; visited, searchedFrom and pageBases record the walk.
InitBook ==
    /\ InitStore
    /\ InitThreads(0)
    /\ call = NoCall /\ issuer = "etl" /\ reads = NoReads /\ statement = NoStatement
    /\ \E pages \in [Roots -> 0..MaxPages] : \E width \in 1..MaxWidth :
       \E limit \in 1..MaxBookLimit :
          bookWalk = [state |-> "outer", pages |-> pages, width |-> width,
                      limit |-> limit, uTipIndex |-> book, offerDir |-> 0,
                      keys |-> <<>>, offers |-> <<>>, visited |-> <<>>,
                      searchedFrom |-> <<>>, pageBases |-> <<>>]

\* One test of the outer loop and, when it holds, fetchSuccessorObject(uTipIndex)
\* and the test that ends the walk.
BookSearch ==
    /\ bookWalk.state = "outer"
    /\ IF Len(bookWalk.keys) >= bookWalk.limit
       THEN bookWalk' = [bookWalk EXCEPT !.state = "resolve"]
       ELSE LET offerDir == BookSuccessor(bookWalk, bookWalk.uTipIndex)
                from == Append(bookWalk.searchedFrom, bookWalk.uTipIndex)
            IN IF offerDir = 0 \/ beyondBook(offerDir)
               THEN bookWalk' = [bookWalk EXCEPT !.state = "resolve",
                                                 !.searchedFrom = from]
               ELSE bookWalk' = [bookWalk EXCEPT !.state = "inner",
                                                 !.offerDir = offerDir,
                                                 !.searchedFrom = from,
                                                 !.visited = Append(@, offerDir)]
    /\ UNCHANGED bookFrame

\* One pass of the inner loop: uTipIndex = offerDir->key, the page's sfIndexes are
\* appended to keys, and the next page, when there is one, is fetched under the
\* key keylet::page(uTipIndex, next). A page that is not found fails the assert,
\* and where asserts are compiled out an empty optional is dereferenced.
BookPage ==
    /\ bookWalk.state = "inner"
    /\ LET uTipIndex == bookWalk.offerDir
           sle == NodeAt(bookWalk, bookWalk.offerDir)
           keys == bookWalk.keys \o sfIndexes(bookWalk, sle)
           next == sfIndexNext(bookWalk, sle)
           nextKey == PageKey(uTipIndex, next)
           w == [bookWalk EXCEPT !.uTipIndex = uTipIndex, !.keys = keys]
       IN IF next = 0
          THEN bookWalk' = [w EXCEPT !.state = "outer"]
          ELSE IF nextKey \notin BookLedger(bookWalk)
               THEN \E outcome \in {"aborted", "undefined"} :
                       bookWalk' = [w EXCEPT !.state = outcome,
                                             !.pageBases = Append(@, uTipIndex)]
               ELSE bookWalk' = [w EXCEPT !.offerDir = nextKey,
                                          !.pageBases = Append(@, uTipIndex),
                                          !.state = IF Len(keys) < bookWalk.limit
                                                    THEN "inner" ELSE "outer"]
    /\ UNCHANGED bookFrame

\* fetchLedgerObjects(keys) and the loop that fills page.offers:
\* for (i = 0; i < keys.size() && i < limit; ++i).
BookResolve ==
    /\ bookWalk.state = "resolve"
    /\ bookWalk' = [bookWalk EXCEPT
                       !.state = "returned",
                       !.offers = SubSeq(bookWalk.keys, 1,
                                         Min({bookWalk.limit, Len(bookWalk.keys)}))]
    /\ UNCHANGED bookFrame

NextBook ==
    \/ BookSearch
    \/ BookPage
    \/ BookResolve

\* The calling thread runs until the call ends.
SpecBook == InitBook /\ [][NextBook]_vars /\ WF_vars(NextBook)

\* ----------------------------------------------------------- bind model
\* One CassandraStatement made from a prepared statement with typed parameters.
\* The driver binds a value to the parameter at a given index when the index is
\* in range and the parameter has the value's type, and returns an error
\* otherwise; the wrapper throws on an error.
Kinds == {"bool", "bytes", "int32", "int64", "tuple"}

\* The index bindNextBoolean gives to cass_statement_bind_bool.
bindNextBooleanIndex == 1

bindFrame == <<ledgerRange, objects, successor, cache_, range, ledgerSequence_,
               numRequestsOutstanding_, inflight, pc, timedOut, errs, res,
               sawExpected, changed, threadVars, call, issuer, reads, bookWalk,
               startMax>>

\* CassandraStatement(prepared): nothing bound, curBindingIndex_ = 0; binds
\* records for each bind call that succeeded the parameter index it filled.
InitBind ==
    /\ InitStore
    /\ InitThreads(0)
    /\ call = NoCall /\ issuer = "etl" /\ reads = NoReads /\ bookWalk = NoWalk
    /\ \E n \in 1..MaxParams : \E types \in [1..n -> Kinds] :
          statement = [state |-> "open", types |-> types,
                       bound |-> [i \in 1..n |-> FALSE],
                       curBindingIndex_ |-> 0, binds |-> <<>>]

\* cass_statement_bind_*(statement_, index, value) for a value of the given kind,
\* the throw on rc != CASS_OK, and curBindingIndex_++: the statement afterwards.
Bind(kind, index) ==
    IF index < Len(statement.types) /\ statement.types[index + 1] = kind
    THEN [statement EXCEPT !.bound[index + 1] = TRUE,
                           !.curBindingIndex_ = @ + 1,
                           !.binds = Append(@, index)]
    ELSE [statement EXCEPT !.state = "threw"]

\* A statement takes at most MaxParams bind calls.
CanBind == statement.state = "open" /\ Len(statement.binds) < MaxParams

BindNextBoolean ==
    /\ CanBind
    /\ statement' = Bind("bool", bindNextBooleanIndex)
    /\ UNCHANGED bindFrame

BindNextBytes ==
    /\ CanBind
    /\ statement' = Bind("bytes", statement.curBindingIndex_)
    /\ UNCHANGED bindFrame

BindNextUInt ==
    /\ CanBind
    /\ statement' = Bind("int32", statement.curBindingIndex_)
    /\ UNCHANGED bindFrame

BindNextInt ==
    /\ CanBind
    /\ statement' = Bind("int64", statement.curBindingIndex_)
    /\ UNCHANGED bindFrame

BindNextIntTuple ==
    /\ CanBind
    /\ statement' = Bind("tuple", statement.curBindingIndex_)
    /\ UNCHANGED bindFrame

NextBind ==
    \/ BindNextBoolean
    \/ BindNextBytes
    \/ BindNextUInt
    \/ BindNextInt
    \/ BindNextIntTuple

SpecBind == InitBind /\ [][NextBind]_vars

\* ------------------------------------------------ claims: the commit
\* C1: finishWrites(S) returns true only if some attempt of its conditional
\* update met a persisted max of S-1 or no is_latest=true row, under every
\* driver outcome.
C1_TrueOnlyFromPredecessor ==
    \A w \in Writers : res[w] = "true" => sawExpected[w]

\* C2: at the moment finishWrites(S) returns true, the in-memory range max and the
\* persisted is_latest=true row both hold S.
C2_SuccessSetsMax ==
    [][\A w \in Writers :
          (pc[w] = "syncUpdate" /\ pc'[w] = "idle" /\ res'[w] = "true")
              => /\ range'[w].has
                 /\ range'[w].max = ledgerSequence_[w]
                 /\ ledgerRange'[TRUE] = ledgerSequence_[w]]_vars

\* C3: a finishWrites(S) that returned false has changed no row of ledger_range
\* (the in-memory range is assigned on success only), the first-ever ledger
\* included.
C3_FailureChangesNothing ==
    \A w \in Writers : res[w] = "false" => changed[w] = {}

\* ------------------------------------------------- claims: the read model
\* What the readers of the writing process may ask for: sequences up to range.max.
ReadSeqs == IF range[ReadWriter].has THEN 1..range[ReadWriter].max ELSE {}
OobValues == {EmptyBlob, BlobAt(0)}
\* The j-th smallest element of a set of numbers.
Nth(S, j) == CHOOSE x \in S : Cardinality({y \in S : y < x}) = j - 1
Ascending(S) == [i \in 1..Cardinality(S) |-> Nth(S, i)]
\* State at sequence S: the blob of the row of K with the greatest seq <= S.
StateAt(K, S) ==
    LET rows == {r \in objects : r.key = K /\ r.seq <= S} IN
    IF rows = {} THEN EmptyBlob
    ELSE (CHOOSE r \in rows : \A q \in rows : q.seq <= r.seq).val
Live(S) == {K \in Keys : Len(StateAt(K, S)) > 0}

\* C4: finishWrites is a barrier: while doFinishWrites is at its ledger_range
\* writes (the initial insert or the conditional update), no async write admitted
\* for the ledger is still outstanding, so every row issued for it is stored.
C4_Barrier ==
    \A w \in Writers :
        pc[w] \in {"syncWrite", "syncUpdate"}
            => /\ inflight[w] = {}
               /\ numRequestsOutstanding_[w] = 0
               /\ DiffOf(w) \subseteq objects
               /\ LinksOf(w) \subseteq successor
C4_Witness ==
    /\ pc[ReadWriter] = "syncUpdate"
    /\ ledgerSequence_[ReadWriter] = 2
    /\ \E r \in objects : r.seq = 2
    /\ Cardinality({r \in successor : r.seq = 2}) = 2

\* C5: atomic visibility: no read at a sequence <= range.max is answered from a
\* row or a cache entry written under a sequence greater than range.max, also
\* while the writes of ledger range.max + 1 are in flight.
C5_AtomicVisibility ==
    \A S \in ReadSeqs : \A K \in Keys \cup {firstKey} :
        /\ fetchLedgerObject(K, S).src <= range[ReadWriter].max
        /\ fetchSuccessorKey(K, S).src <= range[ReadWriter].max
        /\ K \in Keys => fetchLedgerObject(K, S).val = StateAt(K, S)
C5_Witness ==
    /\ pc[ReadWriter] = "writing"
    /\ range[ReadWriter].has
    /\ ledgerSequence_[ReadWriter] = range[ReadWriter].max + 1
    /\ cache_.full
    /\ cache_.latestSeq = ledgerSequence_[ReadWriter]
    /\ \E r \in objects : \E q \in objects :
          /\ r.seq = ledgerSequence_[ReadWriter]
          /\ q.key = r.key
          /\ q.seq <= range[ReadWriter].max
          /\ q.val # r.val
          /\ fetchLedgerObject(r.key, range[ReadWriter].max).val = q.val

\* C6: for every key K and sequence S <= range.max, fetchLedgerObject(K, S) is
\* the blob of the row of K with the greatest seq <= S, and is none (never a
\* present but empty blob) when that blob is empty or there is no such row.
C6_FetchLedgerObject ==
    \A S \in ReadSeqs : \A K \in Keys :
        LET got == fetchLedgerObject(K, S) IN
        /\ got.has <=> Len(StateAt(K, S)) > 0
        /\ got.has => got.val = StateAt(K, S)

\* C7: for every key vector V and sequence S, fetchLedgerObjects(V, S) has the
\* length of V and its i-th element is fetchLedgerObject(V[i], S), an absent key
\* being the empty blob, whatever a read beyond the end of a vector yields.
KeyVectors == UNION {[1..n -> Keys] : n \in 0..MaxLen}
C7_FetchLedgerObjects ==
    \A S \in ReadSeqs : \A V \in KeyVectors : \A oob \in OobValues :
        LET got == fetchLedgerObjects(V, S, oob) IN
        /\ Len(got) = Len(V)
        /\ \A i \in 1..Len(V) :
              got[i] = (IF fetchLedgerObject(V[i], S).has
                        THEN fetchLedgerObject(V[i], S).val ELSE EmptyBlob)

\* fetchSuccessorKey iterated from key, each result fed back as the next key,
\* until it returns none; a walk that has not ended after more steps than there
\* are keys is cut off with ended = FALSE.
RECURSIVE SuccessorWalk(_, _, _)
SuccessorWalk(key, S, fuel) ==
    LET succ == fetchSuccessorKey(key, S) IN
    IF ~succ.has THEN [keys |-> <<>>, ended |-> TRUE]
    ELSE IF fuel = 0 THEN [keys |-> <<>>, ended |-> FALSE]
    ELSE LET rest == SuccessorWalk(succ.val, S, fuel - 1)
         IN [keys |-> <<succ.val>> \o rest.keys, ended |-> rest.ended]

\* C8: for every S in the kept range, iterating fetchSuccessorKey from firstKey
\* yields the keys live at S, each once, in strictly ascending order, and ends
\* with none, after any sequence of committed ledgers that insert and delete keys.
C8_SuccessorIteration ==
    \A S \in ReadSeqs :
        LET walk == SuccessorWalk(firstKey, S, Cardinality(Keys)) IN
        /\ walk.ended
        /\ walk.keys = Ascending(Live(S))
C8_Witness ==
    /\ pc[ReadWriter] = "idle"
    /\ range[ReadWriter].has
    /\ range[ReadWriter].max = MaxSeq
    /\ cache_.full
    /\ \E K \in Keys : K \in Live(1) /\ K \notin Live(MaxSeq)
    /\ Live(MaxSeq) # {}
    /\ SuccessorWalk(firstKey, MaxSeq, Cardinality(Keys)).keys = Ascending(Live(MaxSeq))
    /\ SuccessorWalk(firstKey, 1, Cardinality(Keys)).keys = Ascending(Live(1))

\* fetchLedgerPage called with no cursor and then with each returned cursor until
\* a call returns none: the pages in order, cut off like SuccessorWalk.
RECURSIVE PageWalk(_, _, _, _, _)
PageWalk(cursor, S, limit, oob, fuel) ==
    LET page == fetchLedgerPage(cursor, S, limit, oob) IN
    IF ~page.cursor.has THEN [pages |-> <<page>>, ended |-> TRUE]
    ELSE IF fuel = 0 THEN [pages |-> <<page>>, ended |-> FALSE]
    ELSE LET rest == PageWalk(page.cursor, S, limit, oob, fuel - 1)
         IN [pages |-> <<page>> \o rest.pages, ended |-> rest.ended]
RECURSIVE Concat(_, _)
Concat(pages, f) ==
    IF Len(pages) = 0 THEN <<>> ELSE pages[1][f] \o Concat(Tail(pages), f)

\* C9: paging with fetchLedgerPage at S <= range.max from no cursor until no
\* cursor is returned gives every key live at S exactly once, in ascending key
\* order and with its blob, for every limit >= 1; with three live keys and limit 2
\* the pages are {K1, K2} with cursor K2 and {K3} with no cursor. (The keys and
\* the cursor of a page do not depend on what a read beyond the end of a vector
\* yields; its blobs are compared for every such value.)
C9_Paging ==
    \A S \in ReadSeqs :
        LET live == Ascending(Live(S))
            want == [i \in 1..Len(live) |-> StateAt(live[i], S)]
        IN \A limit \in 1..MaxLimit :
              LET walk == PageWalk(NoKey(0), S, limit, EmptyBlob, Cardinality(Keys)) IN
              /\ walk.ended
              /\ Concat(walk.pages, "keys") = live
              /\ Concat(walk.pages, "blobs") = want
              /\ \A i \in 1..Len(walk.pages) :
                    /\ walk.pages[i].asserted
                    /\ \A oob \in OobValues :
                          fetchLedgerObjects(walk.pages[i].keys, S, oob) = walk.pages[i].blobs
              /\ (Len(live) = 3 /\ limit = 2)
                    => /\ Len(walk.pages) = 2
                       /\ walk.pages[1].keys = <<live[1], live[2]>>
                       /\ SameOpt(walk.pages[1].cursor, SomeKey(live[2], 0))
                       /\ walk.pages[2].keys = <<live[3]>>
                       /\ ~walk.pages[2].cursor.has
C9_Witness ==
    /\ range[ReadWriter].has
    /\ range[ReadWriter].max = 2
    /\ Cardinality(Live(2)) = 3
    /\ cache_.full
    /\ LET p1 == fetchLedgerPage(NoKey(0), 2, 2, EmptyBlob)
           p2 == fetchLedgerPage(p1.cursor, 2, 2, EmptyBlob)
       IN /\ p1.keys = <<1, 2>>
          /\ SameOpt(p1.cursor, SomeKey(2, 0))
          /\ p2.keys = <<3>>
          /\ ~p2.cursor.has

\* C10: cache equivalence: with the cache full and seq equal to the cache's latest
\* sequence, a sequence that is committed, fetchLedgerObject and fetchSuccessorKey
\* return for every key what doFetchLedgerObject and doFetchSuccessorKey return.
C10_CacheEquivalence ==
    (/\ cache_.full
     /\ pc[ReadWriter] = "idle"
     /\ cache_.latestSeq \in ReadSeqs)
        => \A K \in Keys \cup {firstKey} :
              /\ SameOpt(fetchLedgerObject(K, cache_.latestSeq),
                         doFetchLedgerObject(K, cache_.latestSeq))
              /\ SameOpt(fetchSuccessorKey(K, cache_.latestSeq),
                         doFetchSuccessorKey(K, cache_.latestSeq))

\* ------------------------------------------------- claims: retention
\* C11: a doOnlineDelete(N) run at persisted max M leaves fetchLedgerObject(K, S)
\* unchanged for every key K and every S in [M-N+1, M]: a step that removes
\* object rows and moves the persisted min to minKeep changes no read at a
\* sequence from minKeep to M.
C11_RetentionKeepsRange ==
    [][(objects' # objects /\ objects' \subseteq objects)
          => \A S \in ledgerRange'[FALSE]..ledgerRange[TRUE] : \A K \in Keys :
                fetchLedgerObject(K, S)' = fetchLedgerObject(K, S)]_vars
C11_Witness ==
    /\ ledgerRange[FALSE] = 2
    /\ ledgerRange[TRUE] = 2
    /\ \E K \in Keys :
          /\ \E r \in objects : r.key = K /\ r.seq = 2 /\ r.val = EmptyBlob
          /\ ~\E r \in objects : r.key = K /\ r.seq < 2
    /\ \E r \in objects : r.seq = 1
\* C12: with one issuing thread the number of outstanding requests never exceeds
\* maxRequestsOutstanding: the thread tests canAddRequest under throttleMutex_ and
\* increments afterwards, and the callbacks running meanwhile only decrement.
C12_CountNeverExceedsCap == Count <= maxRequestsOutstanding

\* The cap is reached and the issuing thread is blocked with a write to make.
C12_Witness ==
    /\ Count = maxRequestsOutstanding
    /\ At(SyncThread, "admitWait")
    /\ toIssue = MaxWrites - maxRequestsOutstanding

\* The exceptions and values the calls of hardFetchLedgerRange ended with; the
\* number of DatabaseTimeout among them.
Timeouts(raised) == Cardinality({i \in DOMAIN raised : raised[i] = "DatabaseTimeout"})

\* C13: hardFetchLedgerRangeNoThrow retries on DatabaseTimeout only: when
\* hardFetchLedgerRange raised DatabaseTimeout k times and then returned a value,
\* the wrapper has called it k+1 times and returns that value; another exception
\* ends the wrapper at its first occurrence, with no call after it; the wrapper
\* itself never ends with DatabaseTimeout.
C13_RetriesOnTimeoutOnly ==
    call.op = "rangeNoThrow" =>
        /\ \A i \in 1..(Len(call.raised) - 1) : call.raised[i] = "DatabaseTimeout"
        /\ call.state = "running" =>
              \A i \in DOMAIN call.raised : call.raised[i] = "DatabaseTimeout"
        /\ call.state = "returned" =>
              /\ call.raised[Len(call.raised)] = "value"
              /\ call.attempts = Timeouts(call.raised) + 1
              /\ call.result = call.value
        /\ call.state \notin {"running", "returned"} =>
              /\ call.state = "runtime_error"
              /\ call.raised[Len(call.raised)] = "runtime_error"
              /\ call.attempts = Len(call.raised)

\* Two timeouts, then the range: three calls.
C13_Witness ==
    /\ call.op = "rangeNoThrow" /\ call.state = "returned"
    /\ call.raised = <<"DatabaseTimeout", "DatabaseTimeout", "value">>
    /\ call.attempts = 3 /\ call.result = SomeRange

\* An attempt of the call ended in a timeout-class error.
SawTimeoutClass == \E i \in DOMAIN call.hist : call.hist[i] \in TimeoutClass

\* C14: executeSyncUpdate returns success when the store reports the update
\* applied, and when it reports it not applied after an attempt of the same call
\* ended in a timeout-class error; it returns failure when the store reports it
\* not applied and no attempt of the call ended in a timeout-class error.
C14_UpdateResult ==
    (call.op = "update" /\ call.state = "returned" /\ call.row \in {"true", "false"}) =>
        call.result = (call.row = "true" \/ SawTimeoutClass)

\* C15: executeSyncWrite re-issues its statement after every non-OK result and
\* returns only after an attempt returned OK: it never raises, it has not returned
\* while the last result is an error, and when the driver's results hold an OK
\* the call returns.
C15_WriteRetriesUntilOk ==
    /\ [](call.op = "write" =>
            /\ call.state \in {"running", "returned"}
            /\ call.state = "returned" <=>
                  (call.hist # <<>> /\ call.hist[Len(call.hist)] = CASS_OK)
            /\ \A i \in 1..(Len(call.hist) - 1) : call.hist[i] # CASS_OK)
    /\ (call.op = "write" /\ \E i \in DOMAIN call.script : call.script[i] = CASS_OK)
          ~> (call.state = "returned")

\* Errors of two classes, then OK: the write has returned after MaxScript statements.
C15_Witness ==
    /\ call.op = "write" /\ call.state = "returned"
    /\ Len(call.hist) = MaxScript
    /\ InvalidQuery \in {call.hist[i] : i \in DOMAIN call.hist}
    /\ \E i \in DOMAIN call.hist : call.hist[i] \in TimeoutClass

\* C16: executeSyncRead raises DatabaseTimeout exactly when the driver's result is
\* one of the five timeout-class codes: it has raised it when, and only when, the
\* last result is of the class, and no statement was issued after such a result.
C16_ReadTimeout ==
    call.op = "read" =>
        /\ call.state = "DatabaseTimeout" <=>
              (call.hist # <<>> /\ call.hist[Len(call.hist)] \in TimeoutClass)
        /\ \A i \in 1..(Len(call.hist) - 1) : call.hist[i] \notin TimeoutClass

\* A read that met another error first and then a server read timeout.
C16_Witness ==
    /\ call.op = "read" /\ call.state = "DatabaseTimeout"
    /\ Len(call.hist) = 2
    /\ call.hist[1] \in OtherErrors
    /\ call.hist[2] = "CASS_ERROR_SERVER_READ_TIMEOUT"

\* C17: on a synchronous read a driver error that is neither timeout class nor
\* invalid query ends the call with an error instead of a re-issue: it is the
\* last result of the call, no statement is issued after it.
C17_OtherErrorSurfaced ==
    call.op = "read" =>
        \A i \in DOMAIN call.hist :
            call.hist[i] \in OtherErrors => i = Len(call.hist)

\* C18: a synchronous read, write or update whose query the server rejects as
\* invalid fails fast: the rejection is the last result of the call, the statement
\* is not issued again.
C18_InvalidQueryFailsFast ==
    call.op \in {"read", "write", "update"} =>
        \A i \in DOMAIN call.hist :
            call.hist[i] = InvalidQuery => i = Len(call.hist)

\* The callbacks that have passed the sanity check and not yet decremented.
Decrementing == {t \in Callbacks : At(t, "decrement")}

\* C19: a retried async write does not take a second slot: the counter equals the
\* number of logical writes admitted and not yet completed (the statements the
\* driver holds and those whose callback has not yet decremented), however many
\* times they were issued again.
C19_OneSlotPerLogicalWrite == Count = pending + Cardinality(Decrementing)

\* Every allowed re-issue has happened and the writes are still outstanding.
C19_Witness ==
    /\ budget.errors = 0
    /\ pending = maxRequestsOutstanding
    /\ Count = maxRequestsOutstanding

\* C20: sync() never returns having observed a non-zero count, and a thread blocked
\* in sync() returns once every outstanding write has completed: the notification
\* that follows the decrement to 0 is not missed.
C20_SyncReturns ==
    /\ [](At(SyncThread, "done") => seen.count = 0 /\ Count = 0)
    /\ (At(SyncThread, "syncWait") /\ Count = 0) ~> At(SyncThread, "done")

\* sync() blocked, was woken by the notification and returned after all writes.
C20_Witness ==
    /\ At(SyncThread, "done")
    /\ seen.blocked /\ seen.count = 0
    /\ budget.spurious = MaxSpurious
    /\ toIssue = 0 /\ pending = 0

\* C21: while the retention procedure issues its async requests, the number of
\* requests in flight never exceeds indexerMaxRequestsOutstanding.
C21_RetentionUsesIndexerCap ==
    issuer = "retention" => Count <= indexerMaxRequestsOutstanding

\* C22: when no process holds a range, the finishWrites(seq) that succeeds leaves
\* ledger_range with exactly the rows (is_latest=false, seq) and (is_latest=true,
\* seq); a later successful finishWrites of a process does not write the
\* is_latest=false row and leaves the table with both rows.
C22_RangeInitialisation ==
    [][\A w \in Writers :
          (pc[w] = "syncUpdate" /\ res'[w] = "true") =>
              IF \A v \in Writers : ~range[v].has
              THEN ledgerRange' = [b \in BOOLEAN |-> ledgerSequence_[w]]
              ELSE range[w].has =>
                      /\ FALSE \notin changed'[w]
                      /\ \A b \in BOOLEAN : ledgerRange'[b] # Null]_vars

\* C23: the concurrent reads of a doFetchLedgerObjects batch are admitted through
\* the request semaphore: the number of async reads in flight never exceeds the
\* admission cap.
C23_ReadsAdmitted == reads.inFlight <= maxRequestsOutstanding

\* C24: when executeSyncRead, executeSyncWrite or executeSyncUpdate has returned
\* or raised, no future the call created is still allocated.
C24_FuturesFreed ==
    (call.op \in {"read", "write", "update"} /\ call.state # "running") => call.futures = 0

\* The cursors a reader passes to fetchLedgerPage at S: none, or a key live at S.
Cursors(S) == {NoKey(0)} \cup {SomeKey(K, 0) : K \in Live(S)}

\* C25: one fetchLedgerPage(cursor, S, limit) returns at most limit objects, the
\* keys that follow cursor (firstKey when there is none) in ascending order of the
\* keys live at S, each the successor of the one before; it returns a cursor
\* exactly when the page holds at least limit objects, and the cursor is the key of
\* the page's last object.
C25_OnePage ==
    \A S \in ReadSeqs : \A cursor \in Cursors(S) : \A limit \in 0..MaxLimit :
        LET page == fetchLedgerPage(cursor, S, limit, EmptyBlob)
            after == Ascending({K \in Live(S) : cursor.has => K > cursor.val})
            n == Len(page.keys)
        IN /\ n <= limit
           /\ Len(page.blobs) = n
           /\ page.keys = SubSeq(after, 1, Min({limit, Len(after)}))
           /\ page.cursor.has <=> n >= limit
           /\ page.cursor.has => (n > 0 /\ page.cursor.val = page.keys[n])

\* C28: every key reached through the successor index at S is live at S: when
\* fetchSuccessorKey(K, S) yields a key, fetchLedgerObject of that key at S yields
\* a non-empty blob, whichever of the two the cache answers.
C28_SuccessorIsLive ==
    \A S \in ReadSeqs : \A K \in {firstKey} \cup Keys :
        LET succ == fetchSuccessorKey(K, S) IN
        succ.has =>
            LET obj == fetchLedgerObject(succ.val, S)
            IN obj.has /\ Len(obj.val) > 0

\* C29: an admission blocked in incremementOutstandingRequestCount because the
\* count equals the cap is admitted in the end, once an outstanding request has
\* completed: the notification under throttleMutex_ that follows the decrement is
\* not missed between the waiter's test and its wait.
C29_BlockedAdmissionAdmitted ==
    At(SyncThread, "admitWait") ~> At(SyncThread, "increment")

\* The blocked issuing thread was woken by a callback's notification and finds
\* room under the cap.
C29_Witness ==
    /\ At(SyncThread, "admitWoken")
    /\ budget.spurious = MaxSpurious
    /\ canAddRequest(Count)
    /\ toIssue > 0

\* C30: numRequestsOutstanding_ never underflows: the sanity check of
\* decrementOutstandingRequestCount never fires, and the counter covers every
\* callback that is about to decrement, also with two callbacks running at once.
C30_NoUnderflow ==
    /\ \A t \in Callbacks : ~At(t, "threw")
    /\ Count >= Cardinality(Decrementing)

\* Two callbacks have passed the sanity check and both are about to decrement.
C30_Witness ==
    /\ Cardinality(Decrementing) = 2
    /\ Count = 2

\* ------------------------------------------------- claims: the book model
\* C26: fetchBookOffers(book, S, limit) returns at most limit offers, the first
\* limit keys in the order the walk collected them (the walk may have collected
\* more), and no returned offer is an offer of a directory whose key is greater
\* than the book's quality-end key.
C26_BookOffers ==
    bookWalk.state = "returned" =>
        LET n == Len(bookWalk.offers) IN
        /\ n <= bookWalk.limit
        /\ n = Min({bookWalk.limit, Len(bookWalk.keys)})
        /\ bookWalk.offers = SubSeq(bookWalk.keys, 1, n)
        /\ \A i \in 1..n : bookWalk.offers[i][1] <= bookEnd

\* C27: the walk ends with a page returned, the directories it finds are roots
\* in strictly ascending key order (so each at most once), every search for the
\* next directory after the first starts from the root of the directory found
\* before, and every page key is derived from a directory's root key.
C27_WalkOrder ==
    /\ bookWalk.state \notin {"aborted", "undefined"}
    /\ \A i \in 1..Len(bookWalk.visited) :
          /\ bookWalk.visited[i] \in Roots
          /\ i > 1 => bookWalk.visited[i - 1] < bookWalk.visited[i]
    /\ \A i \in 1..Len(bookWalk.searchedFrom) :
          bookWalk.searchedFrom[i] = IF i = 1 THEN book ELSE bookWalk.visited[i - 1]
    /\ \A i \in 1..Len(bookWalk.pageBases) : bookWalk.pageBases[i] \in Roots
C27_AscendingWalk == [](C27_WalkOrder) /\ <>(bookWalk.state = "returned")

\* ------------------------------------------ claims: concurrent admission
\* C31: with two threads in the write admission at once, numRequestsOutstanding_
\* never exceeds maxRequestsOutstanding.
C31_ConcurrentCap == Count <= maxRequestsOutstanding

\* ------------------------------------------ claims: concurrent commits
\* Both writers have returned true from a finishWrites(S) that began while the
\* persisted max was S-1.
BothReturnedTrue(S) ==
    \A w \in Writers :
        /\ pc[w] = "idle" /\ res[w] = "true"
        /\ ledgerSequence_[w] = S
        /\ startMax[w] = S - 1

\* C32: when two writers that share the store both call finishWrites(S) while the
\* persisted max is S-1, the two calls never both return true, whatever the
\* interleaving and the driver errors.
C32_AtMostOneCommits == \A S \in 2..MaxCommitSeq : ~BothReturnedTrue(S)

\* ------------------------------------------------ claims: pages, batches
\* C33: whenever fetchLedgerPage sets a cursor the page holds at least one
\* object, for every limit from 0 on and every ledger, the empty one included:
\* back() is never evaluated on an empty page.
C33_CursorOnlyWithObjects ==
    \A S \in ReadSeqs : \A cursor \in Cursors(S) : \A limit \in 0..MaxLimit :
        LET page == fetchLedgerPage(cursor, S, limit, EmptyBlob) IN
        page.cursor.has => Len(page.keys) > 0

\* C34: in fetchLedgerObjects the second loop refills as many slots as keys
\* missed the cache, so its index into the store's answers stays below their
\* number, and the slot of each miss receives the store's answer for its own
\* key, also when a cache hit carries an empty blob.
C34_ReassemblyInBounds ==
    \A S \in ReadSeqs : \A V \in KeyVectors : \A oob \in OobValues :
        LET results == CacheLoopResults(V, S)
            misses == CacheLoopMisses(V, S)
            refilled == {i \in 1..Len(V) : Len(results[i]) = 0}
            got == fetchLedgerObjects(V, S, oob)
        IN Len(misses) > 0 =>
              /\ Cardinality(refilled) = Len(misses)
              /\ \A i \in 1..Len(V) :
                    ~cacheGet(V[i], S).has => got[i] = doFetchLedgerObjects(<<V[i]>>, S)[1]

\* ------------------------------------------------- claims: the bind model
\* C35: every bindNext* call binds at position curBindingIndex_ and then adds one
\* to it: the k-th bind call of a statement that succeeded filled parameter k-1,
\* and curBindingIndex_ counts the calls, bindNextBoolean at every position
\* included.
C35_BindsInOrder ==
    statement.state # "idle" =>
        /\ statement.curBindingIndex_ = Len(statement.binds)
        /\ \A k \in 1..Len(statement.binds) : statement.binds[k] = k - 1

====
